---------------------------- MODULE Spec2Model ----------------------------
(***************************************************************************)
(* Web3ProvidersHttp (packages/web3-providers-http/src/index.ts): the      *)
(* JSON-RPC over HTTP provider, its connection-state machine and its       *)
(* request/response normalisation.                                         *)
(*                                                                         *)
(* One request() invocation is a "call".  A call is suspended at its       *)
(* `await this._httpClient.post(...)`; the transport settles it (success   *)
(* with a response body, or failure with an error), which runs the rest of *)
(* request() to completion.  A call made by _getChainId() on behalf of     *)
(* _connectToClient() is a probe: when its request() settles, the awaiting *)
(* _getChainId() and _connectToClient() frames continue as microtasks,     *)
(* which all run before the event loop delivers the next transport         *)
(* completion; the settlement of a probe and the rest of                   *)
(* _connectToClient() are therefore one step.                              *)
(***************************************************************************)
EXTENDS Naturals, Sequences, FiniteSets

VARIABLES
    constructed,    \* a provider object exists (the constructor returned)
    httpClient,     \* _httpClient: the baseURL the axios instance is bound to
    web3Client,     \* web3Client: the stored endpoint
    clientChainId,  \* _clientChainId
    connected,      \* _connected
    events,         \* every emit(), in order
    calls,          \* every request() invocation, in order of invocation
    last            \* the step taken last: its input, the error it threw, the
                    \* POST it issued and the request() promise it settled

vars == <<constructed, httpClient, web3Client, clientChainId, connected,
          events, calls, last>>

(***************************************************************************)
(* Bounds of the model.                                                    *)
(***************************************************************************)
MaxCalls == 3

MaxParams == 2

\* how many calls callers make against an endpoint that answers every POST
MaxOps == 2

\* a cap on the calls made in all, above what MaxOps caller calls can cause
MaxPosts == 2 * MaxOps + 1

(***************************************************************************)
(* JavaScript values.  A string that is only compared is a TLA+ string; an *)
(* endpoint, which the regular expression reads, is a sequence of          *)
(* characters.  An absent property of an object reads as undefined.        *)
(***************************************************************************)
Undefined == [k |-> "undefined"]

Null == [k |-> "null"]

Num(n) == [k |-> "number", n |-> n]

Str(s) == [k |-> "string", s |-> s]

Bool(b) == [k |-> "boolean", b |-> b]

Url(chars) == [k |-> "string", chars |-> chars]

\* A response body, or any object read through .data and .result
Obj(data, result) == [k |-> "object", data |-> data, result |-> result]

\* ToBoolean, as the conditional operator and || apply it
Truthy(v) ==
    CASE v.k = "undefined" -> FALSE
      [] v.k = "null" -> FALSE
      [] v.k = "number" -> v.n # 0
      [] v.k = "string" -> v.s # ""
      [] v.k = "boolean" -> v.b
      [] OTHER -> TRUE

\* v.result: undefined on a primitive that has no such property
ResultOf(v) == IF v.k = "object" THEN v.result ELSE Undefined

\* v.data
DataOf(v) == IF v.k = "object" THEN v.data ELSE Undefined

(***************************************************************************)
(* Errors: a name and a message (the message a sequence of its parts).     *)
(***************************************************************************)
NoError == [name |-> "none", message |-> <<>>]

\* Error(message)
GenericError(message) == [name |-> "Error", message |-> message]

\* this._logger.makeError(Web3ProvidersHttpErrorNames.invalidClientUrl, {msg})
InvalidClientUrlError ==
    [name |-> "invalidClientUrl",
     message |-> <<"Provided web3Client is an invalid HTTP(S) URL">>]

(***************************************************************************)
(* _validateClientUrl: typeof web3Client === 'string' and                   *)
(* /^http(s)?:\/\//i.test(web3Client).                                     *)
(***************************************************************************)
\* the i flag: letters compare by their lower-case form
Lower(c) ==
    CASE c = "H" -> "h"
      [] c = "T" -> "t"
      [] c = "P" -> "p"
      [] c = "S" -> "s"
      [] c = "F" -> "f"
      [] OTHER -> c

\* the literal lit matches s at position i
MatchAt(s, i, lit) ==
    /\ i + Len(lit) - 1 <= Len(s)
    /\ \A j \in 1..Len(lit) : Lower(s[i + j - 1]) = lit[j]

\* /^http(s)?:\/\//i.test(s): anchored at the start, the group optional
RegexTest(s) ==
    /\ MatchAt(s, 1, <<"h", "t", "t", "p">>)
    /\ \/ MatchAt(s, 5, <<"s">>) /\ MatchAt(s, 6, <<":", "/", "/">>)
       \/ MatchAt(s, 5, <<":", "/", "/">>)

\* a mutant of ValidateClientUrl: the scheme is not checked
ValidateClientUrlNoScheme(w) == w.k = "string"

\* TRUE when _validateClientUrl returns, FALSE when it throws invalidClientUrl
ValidateClientUrl(w) == w.k = "string" /\ RegexTest(w.chars)

(***************************************************************************)
(* The endpoints callers pass to the constructor and to setWeb3Client.     *)
(***************************************************************************)
UrlA == Url(<<"h", "t", "t", "p", ":", "/", "/", "a">>)

UrlB == Url(<<"H", "t", "T", "p", "S", ":", "/", "/", "b">>)

\* the endpoints the model tries in every state
ClientInputs ==
    { UrlA, UrlB,
      Url(<<"h", "t", "t", "p", ":", "/", "a">>),
      Url(<<"f", "t", "p", ":", "/", "/", "a">>),
      Num(1), Undefined }

\* the endpoints the model tries when only the client is set
ClientCandidates ==
    ClientInputs \cup
    { Url(<<"h", "t", "t", "p", "s", ":", "/", "/">>),
      Url(<<"H", "T", "T", "P", ":", "/", "/", "a">>),
      Url(<<>>),
      Url(<<"h", "t", "t", "p">>),
      Url(<<"h", "t", "t", "p", "s", "s", ":", "/", "/", "a">>),
      Url(<<"h", "t", "t", "p", "s", "/", "/", "a">>),
      Url(<<"h", "t", "t", "p", "s", ":", "/", "a">>),
      Url(<<"w", "s", ":", "/", "/", "a">>),
      Url(<<" ", "h", "t", "t", "p", ":", "/", "/", "a">>),
      Url(<<"a", "h", "t", "t", "p", "s", ":", "/", "/">>),
      Url(<<":", "/", "/", "a">>),
      Null, Bool(TRUE), Obj(Undefined, Undefined) }


(***************************************************************************)
(* request(): parameter normalisation and the arguments of the POST.       *)
(***************************************************************************)
\* args.params given as an ordered sequence
Arr(items) == [k |-> "array", items |-> items]

\* args.params given as a keyed mapping: its keys in insertion order and the
\* value of each
Map(keys, items) == [k |-> "object", keys |-> keys, items |-> items]

\* the keys that are canonical array indices, in ascending numeric order
IndexKeys == <<"0", "1", "2">>

IsIndex(key) == \E j \in 1..Len(IndexKeys) : IndexKeys[j] = key

\* the values of the index keys from IndexKeys[j] on, ascending
RECURSIVE IndexValues(_, _)
IndexValues(m, j) ==
    IF j > Len(IndexKeys) THEN <<>>
    ELSE LET at == {i \in 1..Len(m.keys) : m.keys[i] = IndexKeys[j]}
         IN (IF at = {} THEN <<>> ELSE <<m.items[CHOOSE i \in at : TRUE]>>)
            \o IndexValues(m, j + 1)

\* the values of the other keys from position i on, in insertion order
RECURSIVE StringValues(_, _)
StringValues(m, i) ==
    IF i > Len(m.keys) THEN <<>>
    ELSE (IF IsIndex(m.keys[i]) THEN <<>> ELSE <<m.items[i]>>)
         \o StringValues(m, i + 1)

\* a mutant of ObjectValues: the values in reverse insertion order
ObjectValuesReversed(m) ==
    [i \in 1..Len(m.items) |-> m.items[Len(m.items) + 1 - i]]

\* Object.values(m): own property order, index keys ascending first, then
\* the string keys in insertion order
ObjectValues(m) == IndexValues(m, 1) \o StringValues(m, 1)

\* arrayParams
ArrayParams(params) ==
    IF params.k = "undefined" \/ params.k = "array"
    THEN (IF Truthy(params) THEN params.items ELSE <<>>)
    ELSE ObjectValues(params)

\* args.rpcOptions and args.providerOptions when given
RpcOptions(id) == [k |-> "object", id |-> id]

ProviderOptions(axiosConfig) == [k |-> "object", axiosConfig |-> axiosConfig]

AxiosConfig(timeout) == [k |-> "object", timeout |-> timeout]

Args(method, params, rpcOptions, providerOptions) ==
    [method |-> method, params |-> params, rpcOptions |-> rpcOptions,
     providerOptions |-> providerOptions]

\* the arguments of this._httpClient.post(): path, body, config
PostArguments(args) ==
    [path |-> "",
     body |-> [id |-> IF args.rpcOptions.k = "object"
                      THEN args.rpcOptions.id ELSE Undefined,
               method |-> args.method,
               params |-> ArrayParams(args.params)],
     config |-> IF args.providerOptions.k = "object"
                   /\ Truthy(args.providerOptions.axiosConfig)
                THEN args.providerOptions.axiosConfig
                ELSE AxiosConfig(Undefined)]

\* the arguments _getChainId passes to request
ChainIdArgs == Args("eth_chainId", Arr(<<>>), Undefined, Undefined)

(***************************************************************************)
(* request(): the value a response settles the call with.                  *)
(***************************************************************************)
\* response.data.data ? response.data.data : response.data
Unwrap(body) == IF Truthy(DataOf(body)) THEN DataOf(body) ELSE body

\* how a request() promise settles: raw is what the transport delivered
Resolved(raw, value) == [k |-> "resolved", raw |-> raw, value |-> value]

\* a mutant of Rejected: the error is returned as a normal result
RejectedAsResolved(raw, error) == [k |-> "resolved", raw |-> raw, value |-> error]

Rejected(raw, error) == [k |-> "rejected", raw |-> raw, value |-> error]

\* reading .data of null or undefined throws a TypeError
TypeErrorMessage == <<"Cannot read properties of null (reading 'data')">>

\* the try block from the response on: the value, or Error(error.message)
SettleResponse(body) ==
    IF body.k \in {"null", "undefined"}
    THEN Rejected(body, GenericError(TypeErrorMessage))
    ELSE Resolved(body, Unwrap(body))

(***************************************************************************)
(* What the transport can answer.                                          *)
(***************************************************************************)
ChainIds == {"0x1", "0x2"}

\* a node's answers to eth_chainId, in either response shape
ProbeBodies ==
    { Obj(Undefined, Str("0x1")),
      Obj(Undefined, Str("0x2")),
      Obj(Obj(Undefined, Str("0x2")), Undefined) }

\* a node's answer that carries an error and no result
ErrorBody == Obj(Undefined, Undefined)

\* whatever a node answers to eth_chainId
ProbeAnswers == ProbeBodies \cup {ErrorBody}

\* answers to a caller's request
UserBodies ==
    { Obj(Undefined, Str("0x1")),
      Obj(Obj(Undefined, Str("0x1")), Undefined),
      Obj(Num(0), Str("0x1")),
      Null }

ConnectionRefused == "ECONNREFUSED"

TransportError(code, message) == [code |-> code, message |-> message]

TransportErrors ==
    { TransportError(ConnectionRefused, <<"connect ECONNREFUSED">>),
      TransportError("ECONNABORTED", <<"timeout of 1ms exceeded">>) }

\* what callers pass to request in every state
RequestInputs ==
    { Args("eth_call", Undefined, Undefined, ProviderOptions(Undefined)),
      Args("eth_call", Arr(<<Num(1), Num(2)>>), RpcOptions(Num(1)),
           ProviderOptions(AxiosConfig(Num(1)))),
      Args("eth_call", Map(<<"b", "1", "a">>, <<Num(1), Num(2), Num(3)>>),
           Undefined, Undefined) }

\* the params the model tries when only requests are issued: undefined, every
\* sequence of at most MaxParams values, every mapping of at most MaxParams
\* distinct keys (in every insertion order) to values
ParamValues == {Num(1), Num(2)}

ParamKeys == {"a", "b", "0", "1"}

ParamsCandidates ==
    {Undefined}
    \cup UNION {{Arr(vs) : vs \in [1..n -> ParamValues]} : n \in 0..MaxParams}
    \cup UNION {{Map(ks, vs) :
                    ks \in {f \in [1..n -> ParamKeys] :
                               \A i, j \in 1..n : f[i] = f[j] => i = j},
                    vs \in [1..n -> ParamValues]} : n \in 0..MaxParams}

RequestCandidates ==
    {Args("eth_call", params, Undefined, Undefined) : params \in ParamsCandidates}

(***************************************************************************)
(* Events, as emit() publishes them.                                       *)
(***************************************************************************)
DisconnectedCode == 4900

ConnectEvent(chainId) == [name |-> "connect", payload |-> [chainId |-> chainId]]

DisconnectEvent == [name |-> "disconnect", payload |-> [code |-> DisconnectedCode]]

ChainChangedEvent(chainId) == [name |-> "chainChanged", payload |-> chainId]

EventNames == {"connect", "disconnect", "chainChanged", "message"}

(***************************************************************************)
(* Calls.  origin: who invoked request(): "user", or a probe started by    *)
(* the "constructor", by "setWeb3Client" or by the success path of         *)
(* "request".  stage: "posted" (awaiting the POST); for a probe "done"     *)
(* (_connectToClient() ran to its end) or "unhandled" (its promise         *)
(* rejected: nobody awaits it); for a user's call "returned" or "threw".   *)
(* posts counts the POSTs the invocation issued; outcome is what a probe's *)
(* request() resolved with, or the error _connectToClient() rejected with. *)
(***************************************************************************)
Call(origin, stage, base, posts, outcome) ==
    [origin |-> origin, stage |-> stage, base |-> base, posts |-> posts,
     outcome |-> outcome]

IsProbe(call) == call.origin # "user"

NoClientError == GenericError(<<"No HTTP client initiliazed">>)

\* the error _connectToClient rejects with when request() threw error
ConnectError(error) ==
    GenericError(<<"Error connecting to client: ", "Error getting chain id: ">>
                 \o error.message)

\* a mutant of Invoke: request() finds no client bound
InvokeUnbound(cs, client, origin) ==
    Append(cs, Call(origin, IF origin = "user" THEN "threw" ELSE "unhandled",
                    Undefined, 0, Undefined))

\* request() up to its await: with no client it throws at once (the catch
\* block rethrows Error(message)), otherwise it issues one POST through the
\* client bound now
Invoke(cs, client, origin) ==
    IF client = Undefined
    THEN Append(cs, Call(origin, IF origin = "user" THEN "threw" ELSE "unhandled",
                         client, 0,
                         IF origin = "user" THEN Undefined
                         ELSE ConnectError(NoClientError)))
    ELSE Append(cs, Call(origin, "posted", client, 1, Undefined))

\* a mutant of AfterSettle: a failed call is posted again
AfterSettleRetries(call, settled) ==
    IF settled.k = "rejected"
    THEN [call EXCEPT !.posts = @ + 1]
    ELSE [call EXCEPT !.stage = IF IsProbe(call) THEN "done" ELSE "returned",
                      !.outcome = IF IsProbe(call) THEN settled.value ELSE Undefined]

\* the call after its request() promise settled: a probe's _getChainId and
\* _connectToClient continue to their end (or rethrow), a user's call is over
AfterSettle(call, settled) ==
    IF IsProbe(call)
    THEN [call EXCEPT !.stage = IF settled.k = "resolved" THEN "done" ELSE "unhandled",
                      !.outcome = IF settled.k = "resolved" THEN settled.value
                                  ELSE ConnectError(settled.value)]
    ELSE [call EXCEPT !.stage = IF settled.k = "resolved" THEN "returned" ELSE "threw"]

\* the record of a step: the operation and the call it is about, its input,
\* the error it threw to its caller, the POST it issued, the request()
\* promise it settled and the events it emitted
Step(op, call, input, err, post, settled, emitted) ==
    [op |-> op, call |-> call, input |-> input, err |-> err, post |-> post,
     settled |-> settled, emitted |-> emitted]

Posted(i) == i \in 1..Len(calls) /\ calls[i].stage = "posted"

(***************************************************************************)
(* Init: nothing constructed yet.                                          *)
(***************************************************************************)
Init ==
    /\ constructed = FALSE
    /\ httpClient = Undefined
    /\ web3Client = Undefined
    /\ clientChainId = Undefined
    /\ connected = FALSE
    /\ events = <<>>
    /\ calls = <<>>
    /\ last = Step("none", 0, Undefined, NoError, Undefined, Undefined, <<>>)

(***************************************************************************)
(* _connectToClient() up to its first await: _getChainId() invokes         *)
(* request({method: 'eth_chainId', params: []}).                           *)
(***************************************************************************)
\* a mutant of ConnectToClientStart: no probe is started
ConnectToClientStartSkipped(cs, client, origin) == cs

ConnectToClientStart(cs, client, origin) == Invoke(cs, client, origin)

\* the POST a probe issues through client, if any
ProbePost(client) ==
    IF client = Undefined THEN Undefined ELSE PostArguments(ChainIdArgs)

\* new Web3ProvidersHttp(w)
Constructor(w) ==
    /\ ~constructed
    /\ IF ValidateClientUrl(w)
       THEN /\ constructed' = TRUE
            /\ httpClient' = w
            /\ web3Client' = w
            /\ calls' = ConnectToClientStart(calls, w, "constructor")
            /\ last' = Step("constructor", Len(calls) + 1, w, NoError,
                            ProbePost(w), Undefined, <<>>)
       ELSE /\ last' = Step("constructor", 0, w, InvalidClientUrlError,
                            Undefined, Undefined, <<>>)
            /\ UNCHANGED <<constructed, httpClient, web3Client, calls>>
    /\ UNCHANGED <<clientChainId, connected, events>>

\* the error setWeb3Client throws when _createHttpClient threw error
SetClientError(error) ==
    GenericError(<<"Failed to set web3 client: ">> \o error.message)

\* setWeb3Client(w), while fewer than cap calls have been made
SetWeb3ClientCapped(w, cap) ==
    /\ constructed
    /\ IF ValidateClientUrl(w)
       THEN /\ Len(calls) < cap
            /\ httpClient' = w
            /\ web3Client' = w
            /\ calls' = ConnectToClientStart(calls, w, "setWeb3Client")
            /\ last' = Step("setWeb3Client", Len(calls) + 1, w, NoError,
                            ProbePost(w), Undefined, <<>>)
       ELSE /\ last' = Step("setWeb3Client", 0, w,
                            SetClientError(InvalidClientUrlError),
                            Undefined, Undefined, <<>>)
            /\ UNCHANGED <<httpClient, web3Client, calls>>
    /\ UNCHANGED <<constructed, clientChainId, connected, events>>

\* setWeb3Client(w)
SetWeb3Client(w) == SetWeb3ClientCapped(w, MaxCalls)

\* on(web3ProviderEvent, listener): super.on() registers the listener in the
\* EventEmitter, which holds no field of the provider; returns this
On(name) ==
    /\ constructed
    /\ last' = Step("on", 0, Str(name), NoError, Undefined, Undefined, <<>>)
    /\ UNCHANGED <<constructed, httpClient, web3Client, clientChainId, connected,
                   events, calls>>

\* supportsSubscriptions(): returns false
SupportsSubscriptions ==
    /\ constructed
    /\ last' = Step("supportsSubscriptions", 0, Undefined, NoError, Undefined,
                    Resolved(Undefined, Bool(FALSE)), <<>>)
    /\ UNCHANGED <<constructed, httpClient, web3Client, clientChainId, connected,
                   events, calls>>

\* request(args), called by a user of the provider, up to its await, while
\* fewer than cap calls have been made
RequestCapped(args, cap) ==
    /\ constructed
    /\ Len(calls) < cap
    /\ calls' = Invoke(calls, httpClient, "user")
    /\ last' = IF httpClient = Undefined
               THEN Step("request", Len(calls) + 1, args, NoError, Undefined,
                         Rejected(Undefined, NoClientError), <<>>)
               ELSE Step("request", Len(calls) + 1, args, NoError,
                         PostArguments(args), Undefined, <<>>)
    /\ UNCHANGED <<constructed, httpClient, web3Client, clientChainId, connected,
                   events>>

\* request(args), called by a user of the provider, up to its await
Request(args) == RequestCapped(args, MaxCalls)

\* a mutant of Reconnects: every successful POST starts a probe
ReconnectsAlways == TRUE

\* a mutant of Reconnects: a reconnect probe is never started
ReconnectsNever == FALSE

\* the condition under which the success path of request() starts a probe
Reconnects == connected = FALSE

\* a mutant of ChainChanges: no chain id need be stored
ChainChangesFromUndefined(chainId) == chainId # clientChainId

\* a mutant of ChainChanges: the comparison is inverted
ChainChangesWhenSame(chainId) == clientChainId # Undefined /\ chainId = clientChainId

\* the condition under which _connectToClient emits chainChanged
ChainChanges(chainId) == clientChainId # Undefined /\ chainId # clientChainId

\* a mutant of ConnectEvents: chainChanged is emitted before connect
ConnectEventsReordered(chainId) ==
    (IF ChainChanges(chainId) THEN <<ChainChangedEvent(chainId)>> ELSE <<>>)
    \o <<ConnectEvent(chainId)>>

\* what _connectToClient emits once _getChainId returned chainId
ConnectEvents(chainId) ==
    <<ConnectEvent(chainId)>>
    \o (IF ChainChanges(chainId) THEN <<ChainChangedEvent(chainId)>> ELSE <<>>)

\* the POST of call i succeeds with response.data = body: the rest of the
\* try block of request() and, for a probe, of _getChainId (result.result)
\* and of _connectToClient; a probe is started only while fewer than cap
\* calls have been made
PostSucceedsCapped(i, body, cap) ==
    /\ Posted(i)
    /\ body \in (IF IsProbe(calls[i]) THEN ProbeAnswers ELSE UserBodies)
    /\ Reconnects => Len(calls) < cap
    /\ LET settled == SettleResponse(body)
           started == IF Reconnects
                      THEN ConnectToClientStart(calls, httpClient, "request")
                      ELSE calls
           chainId == ResultOf(settled.value)
           continues == IsProbe(calls[i]) /\ settled.k = "resolved"
       IN /\ calls' = [started EXCEPT ![i] = AfterSettle(@, settled)]
          /\ IF continues
             THEN /\ events' = events \o ConnectEvents(chainId)
                  /\ connected' = TRUE
                  /\ clientChainId' = chainId
             ELSE UNCHANGED <<events, connected, clientChainId>>
          /\ last' = Step("postSucceeds", i, body, NoError,
                          IF Reconnects THEN ProbePost(httpClient) ELSE Undefined,
                          settled,
                          IF continues THEN ConnectEvents(chainId) ELSE <<>>)
    /\ UNCHANGED <<constructed, httpClient, web3Client>>

\* the POST of call i succeeds with response.data = body
PostSucceeds(i, body) == PostSucceedsCapped(i, body, MaxCalls)

\* a mutant of Disconnects: the error code is not consulted
DisconnectsOnAnyError(error) == connected

\* a mutant of Disconnects: the connected flag is not consulted
DisconnectsWheneverRefused(error) == error.code = ConnectionRefused

\* the condition of the catch block of request()
Disconnects(error) == error.code = ConnectionRefused /\ connected

\* the POST of call i fails with error: the catch block of request() and, for
\* a probe, those of _getChainId and _connectToClient
PostFails(i, error) ==
    /\ Posted(i)
    /\ error \in TransportErrors
    /\ IF Disconnects(error)
       THEN /\ connected' = FALSE
            /\ events' = Append(events, DisconnectEvent)
       ELSE UNCHANGED <<connected, events>>
    /\ LET settled == Rejected(error, GenericError(error.message))
       IN /\ calls' = [calls EXCEPT ![i] = AfterSettle(@, settled)]
          /\ last' = Step("postFails", i, error, NoError, Undefined, settled,
                          IF Disconnects(error) THEN <<DisconnectEvent>> ELSE <<>>)
    /\ UNCHANGED <<constructed, httpClient, web3Client, clientChainId>>

Next ==
    \/ \E w \in ClientInputs : Constructor(w)
    \/ \E w \in ClientInputs : SetWeb3Client(w)
    \/ \E name \in EventNames : On(name)
    \/ SupportsSubscriptions
    \/ \E args \in RequestInputs : Request(args)
    \/ \E i \in 1..MaxCalls : \E body \in ProbeBodies \cup UserBodies : PostSucceeds(i, body)
    \/ \E i \in 1..MaxCalls : \E error \in TransportErrors : PostFails(i, error)

Spec == Init /\ [][Next]_vars

\* the provider when callers only construct it and set its client
NextClient ==
    \/ \E w \in ClientCandidates : Constructor(w)
    \/ \E w \in ClientCandidates : SetWeb3Client(w)

SpecClient == Init /\ [][NextClient]_vars

\* the provider when callers only construct it and issue requests
NextParams ==
    \/ Constructor(UrlA)
    \/ \E args \in RequestCandidates : Request(args)

SpecParams == Init /\ [][NextParams]_vars

\* how many calls the callers of the provider have caused: the constructor's
\* probe, setWeb3Client's probes and the users' requests
CallerCalls ==
    Cardinality({i \in 1..Len(calls) : calls[i].origin # "request"})

\* the bodies of an endpoint whose every answer request() resolves with
AnsweredBodies == (ProbeAnswers \cup UserBodies) \ {Null}

\* the provider against an endpoint that answers every POST: callers make
\* at most MaxOps calls, request() starts the probes it wants to
NextResponsive ==
    \/ Constructor(UrlA)
    \/ CallerCalls < MaxOps /\ SetWeb3ClientCapped(UrlB, MaxPosts)
    \/ CallerCalls < MaxOps /\ RequestCapped(ChainIdArgs, MaxPosts)
    \/ \E i \in 1..MaxPosts : \E body \in AnsweredBodies :
           PostSucceedsCapped(i, body, MaxPosts)

\* the endpoint answers every POST in the end
Responsive ==
    \A i \in 1..MaxPosts :
        WF_vars(\E body \in AnsweredBodies : PostSucceedsCapped(i, body, MaxPosts))

SpecResponsive == Init /\ [][NextResponsive]_vars /\ Responsive

\* the same provider against an endpoint that also refuses connections
NextCascade ==
    \/ NextResponsive
    \/ \E i \in 1..MaxPosts :
           PostFails(i, TransportError(ConnectionRefused, <<"connect ECONNREFUSED">>))

SpecCascade == Init /\ [][NextCascade]_vars

(***************************************************************************)
(* Properties.                                                             *)
(***************************************************************************)
\* how many events of this name have been emitted
CountEvents(name) == Cardinality({n \in 1..Len(events) : events[n].name = name})

\* the caller has only constructed the provider: every call is the
\* constructor's probe or a probe started by the success path of request()
OnlyConstruction ==
    /\ constructed
    /\ \A i \in 1..Len(calls) : calls[i].origin \in {"constructor", "request"}

\* no request() has failed so far
NoFailure ==
    \A i \in 1..Len(calls) : calls[i].stage \in {"posted", "done", "returned"}

\* the probe the constructor started has run to its end
InitialProbeSucceeded ==
    /\ OnlyConstruction
    /\ calls[1].origin = "constructor" /\ calls[1].stage = "done"

\* C1: once the probe started by construction has succeeded, with no other
\* caller operation and no failing call, connected is true and exactly one
\* connect event has been emitted, carrying the chain id the endpoint returned
\* to that probe.
C1_OneConnectAfterInitialProbe ==
    (InitialProbeSucceeded /\ NoFailure) =>
        /\ connected
        /\ CountEvents("connect") = 1
        /\ events[1] = ConnectEvent(ResultOf(calls[1].outcome))

\* the events the step emits
NewEvents == SubSeq(events', Len(events) + 1, Len(events'))

\* how many of the events the step emits have this name
CountNew(name) == Cardinality({n \in 1..Len(NewEvents) : NewEvents[n].name = name})

\* the step is the failure of a POST with connection refused
RefusedStep == last'.op = "postFails" /\ last'.input.code = "ECONNREFUSED"

\* C2: a connection-refused failure while connected sets connected to false
\* and emits exactly one disconnect event with code 4900; a
\* connection-refused failure while connected is false emits nothing and
\* leaves connected false.
C2_DisconnectOnce ==
    [][RefusedStep =>
        IF connected
        THEN /\ connected' = FALSE
             /\ events' = Append(events, [name |-> "disconnect",
                                          payload |-> [code |-> 4900]])
        ELSE /\ connected' = FALSE
             /\ events' = events]_vars

\* a second connection-refused failure in a row, after the one that
\* disconnected, has emitted nothing
C2_Witness ==
    /\ last.op = "postFails" /\ last.input.code = "ECONNREFUSED"
    /\ last.emitted = <<>>
    /\ ~connected
    /\ Len(events) > 0 /\ events[Len(events)].name = "disconnect"
    /\ CountEvents("disconnect") = 1

\* the step is the success of the POST of a probe that request() started
ReconnectProbeSucceeds ==
    last'.op = "postSucceeds" /\ calls[last'.call].origin = "request"

\* the chain id a response to eth_chainId carries, in either response shape
ProbedChainId(body) ==
    IF body.data # Undefined THEN body.data.result ELSE body.result

\* C3: when a probe started by request() returns chain id 0x2 while the
\* provider is connected with chain id 0x1 stored, exactly one chainChanged
\* event carrying 0x2 is emitted, connected stays true and no disconnect is
\* emitted.
C3_ChainChangedOnReconnect ==
    [][(/\ ReconnectProbeSucceeds
        /\ connected
        /\ clientChainId = Str("0x1")
        /\ ProbedChainId(last'.input) = Str("0x2")) =>
            /\ connected'
            /\ SubSeq(events', 1, Len(events)) = events
            /\ CountNew("chainChanged") = 1
            /\ \E n \in 1..Len(NewEvents) : NewEvents[n] = ChainChangedEvent(Str("0x2"))
            /\ CountNew("disconnect") = 0]_vars

\* the first probe returned 0x1, the probe request() started returned 0x2
C3_Witness ==
    /\ last.op = "postSucceeds" /\ calls[last.call].origin = "request"
    /\ connected
    /\ events = <<ConnectEvent(Str("0x1")), ConnectEvent(Str("0x2")),
                  ChainChangedEvent(Str("0x2"))>>

\* the operations a caller performs
CallerOps == {"constructor", "setWeb3Client", "on", "supportsSubscriptions", "request"}

\* C5: connected starts false; it becomes true only when the POST of an
\* eth_chainId probe succeeds, false only when a POST fails with connection
\* refused while connected was true, and no caller operation changes it.
C5_ConnectedFollowsOutcomes ==
    /\ connected = FALSE
    /\ [][/\ (~connected /\ connected') =>
                /\ last'.op = "postSucceeds"
                /\ IsProbe(calls[last'.call])
                /\ last'.settled.k = "resolved"
          /\ (connected /\ ~connected') => RefusedStep
          /\ last'.op \in CallerOps => connected' = connected]_vars

\* connected has been true and is false again
C5_Witness ==
    /\ ~connected
    /\ last.op = "postFails"
    /\ events = <<ConnectEvent(Str("0x1")), DisconnectEvent>>

\* C6: a connect event is emitted only from a state where connected is false.
C6_ConnectOnlyWhenDisconnected ==
    [][CountNew("connect") > 0 => ~connected]_vars

\* C7: when a POST succeeds while connected is false, request() starts a
\* probe (one more call, an eth_chainId POST); and when the POST of a probe
\* that request() started succeeds, a connect event carrying the probed chain
\* id is emitted and connected is true.
C7_ReconnectProbe ==
    [][/\ (last'.op = "postSucceeds" /\ ~connected) =>
             /\ Len(calls') = Len(calls) + 1
             /\ calls'[Len(calls')].origin = "request"
             /\ calls'[Len(calls')].stage = "posted"
             /\ last'.post # Undefined
             /\ last'.post.body.method = "eth_chainId"
       /\ ReconnectProbeSucceeds =>
             /\ connected'
             /\ \E n \in 1..Len(NewEvents) :
                    NewEvents[n] = ConnectEvent(ProbedChainId(last'.input))]_vars

\* a probe that request() started has succeeded and emitted its connect event
C7_Witness ==
    /\ last.op = "postSucceeds" /\ calls[last.call].origin = "request"
    /\ calls[last.call].stage = "done"
    /\ connected
    /\ last.emitted # <<>> /\ last.emitted[1] = ConnectEvent(Str("0x2"))

\* C8: every invocation of request() issues at most one POST.
C8_AtMostOnePost ==
    \A i \in 1..Len(calls) : calls[i].posts <= 1

\* a call that failed and a call that succeeded, one POST each
C8_Witness ==
    /\ \E i \in 1..Len(calls) : calls[i].stage = "threw" /\ calls[i].posts = 1
    /\ \E i \in 1..Len(calls) : calls[i].stage = "done" /\ calls[i].posts = 1
    /\ \E i \in 1..Len(calls) : calls[i].stage = "unhandled" /\ calls[i].posts = 1

\* C10: a request() that resolves returns the nested data field of the body
\* whenever the body has one, whatever its value, and the body itself
\* otherwise.
C10_UnwrapsWhenDataPresent ==
    (last.op = "postSucceeds" /\ last.settled.k = "resolved") =>
        last.settled.value = IF last.input.data # Undefined
                             THEN last.input.data ELSE last.input

\* the endpoint is a string that starts with http:// or https://, letters
\* in either case
MatchesScheme(w) ==
    /\ w.k = "string"
    /\ \/ /\ Len(w.chars) >= 7
          /\ [n \in 1..7 |-> Lower(w.chars[n])] = <<"h", "t", "t", "p", ":", "/", "/">>
       \/ /\ Len(w.chars) >= 8
          /\ [n \in 1..8 |-> Lower(w.chars[n])] = <<"h", "t", "t", "p", "s", ":", "/", "/">>

\* the step is a construction or a setWeb3Client with an invalid endpoint
InvalidClientStep ==
    last'.op \in {"constructor", "setWeb3Client"} /\ ~MatchesScheme(last'.input)

\* the step binds no client, stores no endpoint and starts no probe
NoClientEffect ==
    /\ UNCHANGED <<constructed, httpClient, web3Client, clientChainId, connected,
                   events, calls>>
    /\ last'.post = Undefined

\* C4 as stated: for every endpoint that is not a string matching
\* ^https?:// both construction and setWeb3Client fail with an
\* invalidClientUrl error, and bind no client, store no endpoint and start no
\* probe.
C4_InvalidClientUrlThrown ==
    [][InvalidClientStep =>
        /\ last'.err.name = "invalidClientUrl"
        /\ NoClientEffect]_vars

\* C4 as amended: construction fails with the invalidClientUrl error;
\* setWeb3Client fails with a generic Error whose message is "Failed to set
\* web3 client: " followed by the message of the invalidClientUrl error; both
\* bind no client, store no endpoint and start no probe.
C4_InvalidClientRejected ==
    [][InvalidClientStep =>
        /\ last'.op = "constructor" =>
              /\ last'.err.name = "invalidClientUrl"
              /\ last'.err.message = <<"Provided web3Client is an invalid HTTP(S) URL">>
        /\ last'.op = "setWeb3Client" =>
              /\ last'.err.name = "Error"
              /\ last'.err.message = <<"Failed to set web3 client: ",
                                       "Provided web3Client is an invalid HTTP(S) URL">>
        /\ NoClientEffect]_vars

\* setWeb3Client has failed on a provider bound to an endpoint set earlier
C4_Witness ==
    /\ last.op = "setWeb3Client"
    /\ last.input = Url(<<"h", "t", "t", "p", "s", "/", "/", "a">>)
    /\ last.err.name = "Error"
    /\ httpClient = UrlB /\ web3Client = UrlB
    /\ Len(calls) = 2

\* the keys that are array indices, and the number each one is
IsArrayIndex(key) == key \in {"0", "1", "2"}

KeyNumber(key) == CASE key = "0" -> 0 [] key = "1" -> 1 [] key = "2" -> 2

\* in the enumeration order of the mapping m the key at position a comes before
\* the key at position b: array indices ascending, then the other keys in
\* insertion order
KeyBefore(m, a, b) ==
    LET ka == m.keys[a]
        kb == m.keys[b]
    IN \/ IsArrayIndex(ka) /\ IsArrayIndex(kb) /\ KeyNumber(ka) < KeyNumber(kb)
       \/ IsArrayIndex(ka) /\ ~IsArrayIndex(kb)
       \/ ~IsArrayIndex(ka) /\ ~IsArrayIndex(kb) /\ a < b

\* the place of the key at position a in the enumeration order of m
Rank(m, a) == 1 + Cardinality({b \in 1..Len(m.keys) : KeyBefore(m, b, a)})

\* C9: the params of the POST body are the normalisation of args.params:
\* undefined becomes the empty sequence, a sequence is sent as it is, and a
\* mapping is sent as the sequence of its values in enumeration order
\* ({a: 1, b: 2} as [1, 2]).
C9_ParamsNormalised ==
    (last.op = "request" /\ last.post # Undefined) =>
        LET params == last.input.params
            sent == last.post.body.params
        IN /\ params.k = "undefined" => sent = <<>>
           /\ params.k = "array" => sent = params.items
           /\ params.k = "object" =>
                 /\ DOMAIN sent = 1..Len(params.keys)
                 /\ \A a \in 1..Len(params.keys) :
                        sent[Rank(params, a)] = params.items[a]
           /\ params = Map(<<"a", "b">>, <<Num(1), Num(2)>>) =>
                 sent = <<Num(1), Num(2)>>

\* {b: 1, 0: 2} has been sent as [2, 1]
C9_Witness ==
    /\ last.op = "request"
    /\ last.input.params = Map(<<"b", "0">>, <<Num(1), Num(2)>>)
    /\ last.post.body.params = <<Num(2), Num(1)>>

\* the step is a request() that fails: its POST failed, or the response
\* carried no body to read
FailedStep ==
    \/ last'.op = "postFails"
    \/ last'.op = "postSucceeds" /\ last'.input = Null

\* the message of the failure behind a failed request()
UnderlyingMessage ==
    IF last'.op = "postFails" THEN last'.input.message
    ELSE <<"Cannot read properties of null (reading 'data')">>

\* C11: every failed request() ends in an error delivered to its caller that
\* carries the message of the underlying failure, never in a normal result;
\* and a failure that is not connection refused, or that happens while
\* connected is false, leaves connected and the stored chain id unchanged and
\* emits no event.
C11_FailureDelivered ==
    [][FailedStep =>
        /\ last'.settled.k = "rejected"
        /\ last'.settled.value = [name |-> "Error", message |-> UnderlyingMessage]
        /\ calls'[last'.call].stage =
              IF calls[last'.call].origin = "user" THEN "threw" ELSE "unhandled"
        /\ calls'[last'.call].origin # "user" =>
              calls'[last'.call].outcome.message =
                  <<"Error connecting to client: ", "Error getting chain id: ">>
                  \o UnderlyingMessage
        /\ (~RefusedStep \/ ~connected) =>
              /\ connected' = connected
              /\ clientChainId' = clientChainId
              /\ events' = events]_vars

\* a user's request() has timed out while connected: it threw, the provider
\* is still connected and nothing was emitted
C11_Witness ==
    /\ last.op = "postFails" /\ last.input.code = "ECONNABORTED"
    /\ calls[last.call].origin = "user" /\ calls[last.call].stage = "threw"
    /\ last.settled.value.message = <<"timeout of 1ms exceeded">>
    /\ connected /\ clientChainId = Str("0x1")
    /\ last.emitted = <<>>

\* the step is the failure of a probe that the constructor or setWeb3Client
\* started
BackgroundProbeFails ==
    /\ FailedStep
    /\ calls[last'.call].origin \in {"constructor", "setWeb3Client"}

\* C12: construction with a valid endpoint succeeds and returns while its
\* probe is still in flight; the failure of a probe started by the
\* constructor or by setWeb3Client throws nothing to a caller and, when
\* connected is false, emits no event and leaves connected false and the
\* stored chain id unchanged.
C12_ProbeFailureNotSurfaced ==
    [][/\ (last'.op = "constructor" /\ MatchesScheme(last'.input)) =>
             /\ last'.err = [name |-> "none", message |-> <<>>]
             /\ constructed'
             /\ calls'[last'.call].origin = "constructor"
             /\ calls'[last'.call].stage = "posted"
       /\ BackgroundProbeFails =>
             /\ last'.err = [name |-> "none", message |-> <<>>]
             /\ calls'[last'.call].stage = "unhandled"
             /\ ~connected =>
                   /\ events' = events
                   /\ connected' = FALSE
                   /\ clientChainId' = clientChainId]_vars

\* the constructor has returned and its probe has then been refused: nothing
\* was emitted, the provider is not connected and stores no chain id
C12_Witness ==
    /\ constructed
    /\ last.op = "postFails" /\ last.input.code = "ECONNREFUSED"
    /\ calls[last.call].origin = "constructor"
    /\ calls[last.call].stage = "unhandled"
    /\ events = <<>> /\ ~connected /\ clientChainId = Undefined

\* the step is a setWeb3Client with a valid endpoint
ValidSetClientStep ==
    last'.op = "setWeb3Client" /\ MatchesScheme(last'.input)

\* C13: setWeb3Client with a valid endpoint binds the HTTP client to the new
\* endpoint, stores the endpoint and starts one probe (an eth_chainId POST to
\* the new endpoint), throws nothing, emits nothing and leaves connected and
\* the stored chain id unchanged.
C13_SetClientRebinds ==
    [][ValidSetClientStep =>
        /\ last'.err = [name |-> "none", message |-> <<>>]
        /\ httpClient' = last'.input
        /\ web3Client' = last'.input
        /\ Len(calls') = Len(calls) + 1
        /\ SubSeq(calls', 1, Len(calls)) = calls
        /\ calls'[Len(calls')].origin = "setWeb3Client"
        /\ calls'[Len(calls')].stage = "posted"
        /\ calls'[Len(calls')].base = last'.input
        /\ calls'[Len(calls')].posts = 1
        /\ last'.post # Undefined
        /\ last'.post.body.method = "eth_chainId"
        /\ connected' = connected
        /\ clientChainId' = clientChainId
        /\ events' = events]_vars

\* setWeb3Client has switched a connected provider to another endpoint: the
\* provider is still connected with the chain id of the old endpoint stored
C13_Witness ==
    /\ last.op = "setWeb3Client"
    /\ calls[1].base # last.input
    /\ httpClient = last.input /\ web3Client = last.input
    /\ calls[Len(calls)].origin = "setWeb3Client"
    /\ calls[Len(calls)].stage = "posted"
    /\ connected /\ clientChainId = Str("0x1")

\* who invokes request()
Origins == {"user", "constructor", "setWeb3Client", "request"}

\* C14: once the provider is constructed an HTTP client is bound in every
\* state, to an endpoint that passed validation; so no invocation of
\* request() has taken the no-client path (each has issued its POST), and
\* that path, were it taken, throws without issuing a POST.
C14_ClientAlwaysBound ==
    /\ constructed =>
          /\ httpClient # Undefined
          /\ MatchesScheme(httpClient)
          /\ web3Client = httpClient
    /\ \A i \in 1..Len(calls) :
          /\ calls[i].base # Undefined
          /\ calls[i].posts = 1
    /\ last.settled # [k |-> "rejected", raw |-> Undefined,
                       value |-> [name |-> "Error",
                                  message |-> <<"No HTTP client initiliazed">>]]
    /\ last.op = "request" => last.post # Undefined
    /\ \A origin \in Origins :
          LET call == Invoke(<<>>, Undefined, origin)[1]
          IN call.posts = 0 /\ call.stage \in {"threw", "unhandled"}

\* setWeb3Client has been refused an invalid endpoint after it had switched
\* the provider to another endpoint and a user had called request(): the
\* client is still bound and each call has issued its POST
C14_Witness ==
    /\ last.op = "setWeb3Client" /\ last.err.name = "Error"
    /\ httpClient = UrlB
    /\ calls[1].base = UrlA
    /\ \E i \in 1..Len(calls) : calls[i].origin = "user" /\ calls[i].posts = 1

\* the step is the success of a probe: its POST succeeded and request()
\* resolved
ProbeSucceeds ==
    /\ last'.op = "postSucceeds"
    /\ calls[last'.call].origin # "user"
    /\ last'.settled.k = "resolved"

\* C15: when a probe succeeds, a chainChanged event is emitted if and only
\* if a chain id is stored and differs from the one the probe observed; the
\* event is emitted once and carries the observed id; and the observed id is
\* the stored chain id afterwards.
C15_ChainChangedIffDiffers ==
    [][ProbeSucceeds =>
        LET observed == ProbedChainId(last'.input)
        IN /\ CountNew("chainChanged") =
                 IF clientChainId # Undefined /\ clientChainId # observed
                 THEN 1 ELSE 0
           /\ \A n \in 1..Len(NewEvents) :
                 NewEvents[n].name = "chainChanged" =>
                     NewEvents[n].payload = observed
           /\ clientChainId' = observed]_vars

\* three probes have succeeded, observing 0x1, 0x2 and 0x2: only the second
\* emitted chainChanged
C15_Witness ==
    /\ last.op = "postSucceeds" /\ calls[last.call].origin # "user"
    /\ clientChainId = Str("0x2")
    /\ events = <<ConnectEvent(Str("0x1")),
                  ConnectEvent(Str("0x2")), ChainChangedEvent(Str("0x2")),
                  ConnectEvent(Str("0x2"))>>

\* the chain id each endpoint reports, for two endpoints on different chains
Reports(base) == IF base = UrlA THEN Str("0x1") ELSE Str("0x2")

\* every call has succeeded, none is in flight, and every probe was answered
\* the chain id of the endpoint it was posted to
AllAnswered(cs) ==
    \A i \in 1..Len(cs) :
        /\ cs[i].stage \in {"done", "returned"}
        /\ cs[i].stage = "done" => ResultOf(cs[i].outcome) = Reports(cs[i].base)

\* the step is the success of a call that was posted to another endpoint
\* than the current one: setWeb3Client switched the endpoint while the call
\* was in flight
StaleCallSucceeds ==
    /\ last'.op = "postSucceeds"
    /\ calls[last'.call].base # httpClient

\* C16: when setWeb3Client has switched the endpoint while a call to the old
\* endpoint was in flight, then once every call has completed the stored
\* chain id, and the chain id of the last connect event, are the one the
\* current endpoint reports; stated for the completion order in which the
\* call to the old endpoint completes last.
C16_CurrentEndpointWins ==
    [][(StaleCallSucceeds /\ AllAnswered(calls')) =>
        /\ clientChainId' = Reports(httpClient')
        /\ \A n \in 1..Len(events') :
              (/\ events'[n].name = "connect"
               /\ \A m \in (n + 1)..Len(events') : events'[m].name # "connect") =>
                  events'[n].payload.chainId = Reports(httpClient')]_vars

\* the positions of the events of this name
Positions(name) == {n \in 1..Len(events) : events[n].name = name}

\* C17: disconnect events never outnumber connect events, and between any
\* two disconnect events there is a connect event; a disconnect event is
\* emitted only from a state where connected is true, and connected is false
\* right after it.
C17_DisconnectsFollowConnects ==
    /\ [](/\ CountEvents("disconnect") <= CountEvents("connect")
          /\ \A a, b \in Positions("disconnect") :
                a < b => \E c \in Positions("connect") : a < c /\ c < b)
    /\ [][CountNew("disconnect") > 0 => (connected /\ ~connected')]_vars

\* the provider has disconnected, connected again and disconnected again
C17_Witness ==
    /\ Cardinality(Positions("disconnect")) = 2
    /\ events[Len(events)].name = "disconnect"
    /\ ~connected
    /\ last.op = "postFails" /\ last.emitted # <<>>

\* the position of the connect event emitted last, 0 when there is none
LastConnect ==
    IF Positions("connect") = {} THEN 0
    ELSE CHOOSE n \in Positions("connect") :
             \A m \in Positions("connect") : m <= n

\* C18: in every state the stored chain id is the chain id of the connect
\* event emitted last, it is undefined exactly when no connect event has been
\* emitted, and connected being true implies that a connect event has been
\* emitted.
C18_StoredIdIsLastConnect ==
    /\ LastConnect # 0 => clientChainId = events[LastConnect].payload.chainId
    /\ clientChainId = Undefined <=> LastConnect = 0
    /\ connected => LastConnect # 0

\* no call is in flight
Quiescent == \A i \in 1..Len(calls) : calls[i].stage # "posted"

\* how many POSTs the first n calls have issued
RECURSIVE Posts(_)
Posts(n) == IF n = 0 THEN 0 ELSE Posts(n - 1) + calls[n].posts

C20_ChainChangedFollowsConnect ==
    [][\A n \in 1..Len(NewEvents) :
          NewEvents[n].name = "chainChanged" =>
              /\ n > 1
              /\ NewEvents[n - 1] = [name |-> "connect",
                                     payload |-> [chainId |-> NewEvents[n].payload]]
              /\ last'.op = "postSucceeds"
              /\ calls[last'.call].origin # "user"]_vars

\* a probe observed 0x1 after 0x2 was stored: it emitted connect and then
\* chainChanged, both carrying 0x1
C20_Witness ==
    /\ last.op = "postSucceeds"
    /\ last.emitted = <<ConnectEvent(Str("0x1")), ChainChangedEvent(Str("0x1"))>>
    /\ events = <<ConnectEvent(Str("0x2"))>> \o last.emitted

=============================================================================
